---------------------------- MODULE Spec2Model ----------------------------
(***************************************************************************)
(* A model of redis_cache/client.py: the versioned cache facade           *)
(* (DefaultClient) and its sharded variant (ShardClient), over Redis       *)
(* connections that hold expiring entries.                                 *)
(*                                                                         *)
(* Python values are modelled as optional integers: None is the empty      *)
(* tuple and the integer n is <<n>>.  The same encoding serves every       *)
(* optional argument (timeout, version, client) and every optional reply   *)
(* of a connection (GET, TTL).                                             *)
(***************************************************************************)
EXTENDS Integers, Sequences, FiniteSets, TLC

VARIABLES
    store,            \* store[conn][k]: None, or <<[val, exp]>> held by that connection's server
    default_timeout,  \* self._backend.default_timeout
    last,             \* the last facade call: its arguments, outcome and the commands it sent
    written,          \* the versioned keys a write was ever issued for
    nops,             \* the number of facade calls made so far
    klass,            \* the class of the client: "DefaultClient", "ShardClient" or "MasterSlaveClient"
    nodes,            \* self._nodes: the names of the servers the client was configured with
    calls,            \* the calls of concurrent callers in progress (frames, before, trace); <<>> when calls come one at a time
    _client           \* self._client: the connection the property client keeps, None when the attribute is unset

vars == <<store, default_timeout, last, written, nops, klass, nodes, calls, _client>>

-----------------------------------------------------------------------------
(* Bounds of the model *)

MaxOps == 2        \* facade calls in one behaviour
MaxTTL == 2        \* the largest timeout, in seconds (one Tick is one second)

(* Program constants *)

BackendVersion == 1    \* self._backend.version

-----------------------------------------------------------------------------
(* Optional values *)

None == <<>>
Some(x) == <<x>>
The(o) == o[1]

RawKeys == {<<"a">>, <<"b">>}      \* raw keys, as sequences of characters
Versions == {1, 2}
KEY_PREFIX == "p"

PyValues == {None, Some(1)}                     \* the values callers store
Timeouts == {None, Some(0), Some(MaxTTL)}       \* the timeouts callers pass
Deltas == {-1, 0, 1}                            \* the version deltas callers pass

Nodes == {"s1", "s2"}            \* the names of ShardClient._serverdict's connections
Conns == Nodes \cup {"client"}   \* and the connection behind the property DefaultClient.client

-----------------------------------------------------------------------------
(* Keys *)

Raw(s) == [raw |-> s]

\* backend.make_key: "<prefix>:<version>:<rawKey>", the backend's version when none is given
backend_make_key(raw, version) ==
    [prefix |-> KEY_PREFIX,
     version |-> IF version = None THEN BackendVersion ELSE The(version),
     raw |-> raw]

IsCacheKey(key) == "version" \in DOMAIN key

\* CacheKey.original_key: the raw key of a versioned key
original_key(ck) == Raw(ck.raw)

make_key(key, version) ==
    IF ~IsCacheKey(key) THEN backend_make_key(key.raw, version) ELSE key

StoreKeys == {backend_make_key(r, Some(v)) : r \in RawKeys, v \in Versions}

-----------------------------------------------------------------------------
(* The value codec *)

pickle(value) == [pkl |-> value]
unpickle(bytes) == bytes.pkl

-----------------------------------------------------------------------------
(* A Redis connection.  A world w is [store, log, bad]: the stores, the     *)
(* commands sent so far by the running call, and the connections whose      *)
(* transport fails during it.  A command yields [w, err, val]; err is the   *)
(* transport's ConnectionError.                                             *)

Send(w, conn, cmd, keys) ==
    [w EXCEPT !.log = Append(@, [conn |-> conn, cmd |-> cmd, keys |-> keys])]

Down(w, conn) == conn \in w.bad

Reply(w, err, val) == [w |-> w, err |-> err, val |-> val]

Put(w, conn, k, entry) ==
    IF Down(w, conn) THEN w ELSE [w EXCEPT !.store[conn][k] = entry]

Redis_get(w, conn, k) ==
    Reply(Send(w, conn, "GET", {k}), Down(w, conn),
          IF w.store[conn][k] = None THEN None ELSE Some(The(w.store[conn][k]).val))

Redis_set(w, conn, k, bytes) ==
    Reply(Put(Send(w, conn, "SET", {k}), conn, k, Some([val |-> bytes, exp |-> None])),
          Down(w, conn), TRUE)

Redis_setex(w, conn, k, bytes, time) ==
    Reply(Put(Send(w, conn, "SETEX", {k}), conn, k, Some([val |-> bytes, exp |-> Some(time)])),
          Down(w, conn), TRUE)

Redis_delete(w, conn, keys) ==
    LET sent == Send(w, conn, "DEL", keys)
    IN  Reply(IF Down(w, conn) THEN sent
              ELSE [sent EXCEPT !.store[conn] =
                        [k \in StoreKeys |-> IF k \in keys THEN None ELSE @[k]]],
              Down(w, conn), TRUE)

Redis_exists(w, conn, k) ==
    Reply(Send(w, conn, "EXISTS", {k}), Down(w, conn), w.store[conn][k] # None)

\* The legacy redis.Redis client answers None for a key with no expiry
Redis_ttl(w, conn, k) ==
    Reply(Send(w, conn, "TTL", {k}), Down(w, conn),
          IF w.store[conn][k] = None THEN None ELSE The(w.store[conn][k]).exp)

-----------------------------------------------------------------------------
(* Outcomes of a facade call: st is "ok" or the exception raised *)

Return(w, val) == [w |-> w, st |-> "ok", val |-> val]
Raise(w, exc) == [w |-> w, st |-> exc, val |-> None]

Wrapped(r) ==
    IF r.err THEN Raise(r.w, "ConnectionInterrumped") ELSE Return(r.w, r.val)

-----------------------------------------------------------------------------
(* DefaultClient *)

\* The property DefaultClient.client: the client's own, lazily opened connection
\* to self._server; configured with one server, a ShardClient's node is that server
DefaultClient_client(self) ==
    IF self = "ShardClient" /\ Cardinality(nodes) = 1 THEN CHOOSE n \in nodes : TRUE
    ELSE "client"

\* set that takes a timeout of 0 for an expiry
DefaultClient_set_expiring_at_zero(self, w, key, value, timeout, version, client) ==
    LET c == IF client = None THEN DefaultClient_client(self) ELSE The(client)
        k == make_key(key, version)
        bytes == pickle(value)
        t == IF timeout = None THEN default_timeout ELSE The(timeout)
    IN  IF t >= 0 THEN Wrapped(Redis_setex(w, c, k, bytes, t))
        ELSE Wrapped(Redis_set(w, c, k, bytes))

DefaultClient_set(self, w, key, value, timeout, version, client) ==
    LET c == IF client = None THEN DefaultClient_client(self) ELSE The(client)
        k == make_key(key, version)
        bytes == pickle(value)
        t == IF timeout = None THEN default_timeout ELSE The(timeout)
    IN  IF t > 0 THEN Wrapped(Redis_setex(w, c, k, bytes, t))
        ELSE Wrapped(Redis_set(w, c, k, bytes))

\* get that builds its key without the version it was given
DefaultClient_get_unversioned(self, w, key, default, version, client) ==
    LET c == IF client = None THEN DefaultClient_client(self) ELSE The(client)
        k == make_key(key, None)
        r == Redis_get(w, c, k)
    IN  IF r.err THEN Raise(r.w, "ConnectionInterrumped")
        ELSE IF r.val = None THEN Return(r.w, default)
        ELSE Return(r.w, unpickle(The(r.val)))

\* get that answers the default when the connection fails
DefaultClient_get_swallows_failure(self, w, key, default, version, client) ==
    LET c == IF client = None THEN DefaultClient_client(self) ELSE The(client)
        k == make_key(key, version)
        r == Redis_get(w, c, k)
    IN  IF r.err THEN Return(r.w, default)
        ELSE IF r.val = None THEN Return(r.w, default)
        ELSE Return(r.w, unpickle(The(r.val)))

DefaultClient_get(self, w, key, default, version, client) ==
    LET c == IF client = None THEN DefaultClient_client(self) ELSE The(client)
        k == make_key(key, version)
        r == Redis_get(w, c, k)
    IN  IF r.err THEN Raise(r.w, "ConnectionInterrumped")
        ELSE IF r.val = None THEN Return(r.w, default)
        ELSE Return(r.w, unpickle(The(r.val)))

DefaultClient_delete(self, w, key, version, client) ==
    LET c == IF client = None THEN DefaultClient_client(self) ELSE The(client)
        r == Redis_delete(w, c, {make_key(key, version)})
    IN  IF r.err THEN Raise(r.w, "ConnectionInterrumped") ELSE Return(r.w, None)

DefaultClient_has_key(self, w, key, version, client) ==
    LET c == IF client = None THEN DefaultClient_client(self) ELSE The(client)
        k == make_key(key, version)
    IN  Wrapped(Redis_exists(w, c, k))

-----------------------------------------------------------------------------
(* ShardClient: the routing of a key, and the single-key methods that       *)
(* DefaultClient's own methods call back through self                       *)

Code(ch) ==
    CASE ch = "a" -> 1 [] ch = "b" -> 2 [] ch = "p" -> 3 [] ch = ":" -> 4
      [] ch = "{" -> 5 [] ch = "}" -> 6 [] ch = "1" -> 7 [] ch = "2" -> 8
      [] OTHER -> 9

Digit(n) == CASE n = 0 -> "0" [] n = 1 -> "1" [] n = 2 -> "2" [] n = 3 -> "3" [] OTHER -> "9"

\* str(key): "<prefix>:<version>:<rawKey>" as a sequence of characters
str(key) == <<key.prefix, ":", Digit(key.version), ":">> \o key.raw

RECURSIVE SumCodes(_)
SumCodes(s) == IF s = <<>> THEN 0 ELSE Code(Head(s)) + SumCodes(Tail(s))

\* HashRing.get_node: one node for every string, the same at every call; a
\* ring of one node resolves every string to that node
get_node(s) ==
    IF Cardinality(nodes) = 1 THEN CHOOSE n \in nodes : TRUE
    ELSE IF SumCodes(s) % 2 = 0 THEN "s1" ELSE "s2"

\* _findhash.match(key): the group of '.*\{(.*)\}.*', both .* before the
\* braces greedy; None when the key holds no "{" followed by a "}"
findhash_match(s) ==
    LET closes == {j \in 1..Len(s) : s[j] = "}"}
        opens == {i \in 1..Len(s) : s[i] = "{" /\ \E j \in closes : j > i}
    IN  IF opens = {} THEN None
        ELSE LET i == CHOOSE x \in opens : \A y \in opens : y <= x
                 j == CHOOSE x \in closes : \A y \in closes : y <= x
             IN  Some(SubSeq(s, i + 1, j - 1))

\* get_server_name that hashes the whole key, whatever tag it carries
get_server_name_untagged(key) == get_node(str(key))

get_server_name(key) ==
    LET g == findhash_match(str(key))
    IN  get_node(IF g # None THEN The(g) ELSE str(key))

\* self._serverdict[name]: the connection of that name
get_server(key) == get_server_name(key)

ShardClient_get(self, w, key, default, version, client) ==
    IF client = None
    THEN LET k == make_key(key, version)
         IN  DefaultClient_get(self, w, k, default, version, Some(get_server(k)))
    ELSE DefaultClient_get(self, w, key, default, version, client)

ShardClient_set(self, w, key, value, timeout, version, client) ==
    IF client = None
    THEN LET k == make_key(key, version)
         IN  DefaultClient_set(self, w, k, value, timeout, version, Some(get_server(k)))
    ELSE DefaultClient_set(self, w, key, value, timeout, version, client)

ShardClient_delete(self, w, key, version, client) ==
    IF client = None
    THEN LET k == make_key(key, version)
         IN  DefaultClient_delete(self, w, k, version, Some(get_server(k)))
    ELSE DefaultClient_delete(self, w, key, version, client)

-----------------------------------------------------------------------------
(* MasterSlaveClient: the router's connections, and the single-key methods  *)
(* its own methods call back through self                                   *)

\* MasterSlaveRouter.get_for_write: the connection of the master, the first node
get_for_write == "s1"

\* MasterSlaveRouter.get_for_read: the connection of a slave when there is one
get_for_read ==
    IF nodes \ {get_for_write} # {} THEN CHOOSE n \in nodes \ {get_for_write} : TRUE
    ELSE get_for_write

MasterSlaveClient_set(self, w, key, value, timeout, version, client) ==
    LET c == IF client = None THEN get_for_write ELSE The(client)
        k == make_key(key, version)
        bytes == pickle(value)
        t == IF timeout = None THEN default_timeout ELSE The(timeout)
    IN  IF t > 0 THEN Wrapped(Redis_setex(w, c, k, bytes, t))
        ELSE Wrapped(Redis_set(w, c, k, bytes))

MasterSlaveClient_get(self, w, key, default, version, client) ==
    LET c == IF client = None THEN get_for_read ELSE The(client)
        k == make_key(key, version)
        r == Redis_get(w, c, k)
    IN  IF r.err THEN Raise(r.w, "ConnectionInterrumped")
        ELSE IF r.val = None THEN Return(r.w, default)
        ELSE Return(r.w, unpickle(The(r.val)))

MasterSlaveClient_delete(self, w, key, version, client) ==
    LET c == IF client = None THEN get_for_write ELSE The(client)
        r == Redis_delete(w, c, {make_key(key, version)})
    IN  IF r.err THEN Raise(r.w, "ConnectionInterrumped") ELSE Return(r.w, None)

MasterSlaveClient_has_key(self, w, key, version, client) ==
    LET c == IF client = None THEN get_for_read ELSE The(client)
        k == make_key(key, version)
    IN  Wrapped(Redis_exists(w, c, k))

-----------------------------------------------------------------------------
(* self.get, self.set, self.delete, self.has_key: the method of the         *)
(* client's own class                                                       *)

self_get(self, w, key, default, version, client) ==
    IF self = "ShardClient" THEN ShardClient_get(self, w, key, default, version, client)
    ELSE IF self = "MasterSlaveClient"
    THEN MasterSlaveClient_get(self, w, key, default, version, client)
    ELSE DefaultClient_get(self, w, key, default, version, client)

self_set(self, w, key, value, timeout, version, client) ==
    IF self = "ShardClient" THEN ShardClient_set(self, w, key, value, timeout, version, client)
    ELSE IF self = "MasterSlaveClient"
    THEN MasterSlaveClient_set(self, w, key, value, timeout, version, client)
    ELSE DefaultClient_set(self, w, key, value, timeout, version, client)

self_delete(self, w, key, version, client) ==
    IF self = "ShardClient" THEN ShardClient_delete(self, w, key, version, client)
    ELSE IF self = "MasterSlaveClient"
    THEN MasterSlaveClient_delete(self, w, key, version, client)
    ELSE DefaultClient_delete(self, w, key, version, client)

\* ShardClient defines no has_key of its own
self_has_key(self, w, key, version, client) ==
    IF self = "MasterSlaveClient"
    THEN MasterSlaveClient_has_key(self, w, key, version, client)
    ELSE DefaultClient_has_key(self, w, key, version, client)

-----------------------------------------------------------------------------
(* DefaultClient, the methods built on the ones above *)

\* incr_version that leaves the old versioned key in place
DefaultClient_incr_version_keeps_old(self, w, key, delta, version, client) ==
    LET c == IF client = None THEN DefaultClient_client(self) ELSE The(client)
        v == IF version = None THEN BackendVersion ELSE The(version)
        old_key == make_key(key, Some(v))
        got == self_get(self, w, old_key, None, Some(v), Some(c))
    IN  IF got.st # "ok" THEN got
        ELSE LET ttl == Redis_ttl(got.w, c, old_key)
             IN  IF ttl.err THEN Raise(ttl.w, "ConnectionInterrumped")
                 ELSE IF got.val = None THEN Raise(ttl.w, "ValueError")
                 ELSE LET new_key == IF IsCacheKey(key)
                                     THEN make_key(original_key(key), Some(v + delta))
                                     ELSE make_key(key, Some(v + delta))
                          put == self_set(self, ttl.w, new_key, got.val, ttl.val, None, Some(c))
                      IN  IF put.st # "ok" THEN put
                          ELSE Return(put.w, Some(v + delta))

DefaultClient_incr_version(self, w, key, delta, version, client) ==
    LET c == IF client = None THEN DefaultClient_client(self) ELSE The(client)
        v == IF version = None THEN BackendVersion ELSE The(version)
        old_key == make_key(key, Some(v))
        got == self_get(self, w, old_key, None, Some(v), Some(c))
    IN  IF got.st # "ok" THEN got
        ELSE LET ttl == Redis_ttl(got.w, c, old_key)
             IN  IF ttl.err THEN Raise(ttl.w, "ConnectionInterrumped")
                 ELSE IF got.val = None THEN Raise(ttl.w, "ValueError")
                 ELSE LET new_key == IF IsCacheKey(key)
                                     THEN make_key(original_key(key), Some(v + delta))
                                     ELSE make_key(key, Some(v + delta))
                          put == self_set(self, ttl.w, new_key, got.val, ttl.val, None, Some(c))
                      IN  IF put.st # "ok" THEN put
                          ELSE LET del == self_delete(self, put.w, old_key, None, Some(c))
                               IN  IF del.st # "ok" THEN del
                                   ELSE Return(del.w, Some(v + delta))

\* add that sets without looking whether the key exists
DefaultClient_add_unchecked(self, w, key, value, timeout, version, client) ==
    LET c == IF client = None THEN DefaultClient_client(self) ELSE The(client)
        k == make_key(key, version)
    IN  self_set(self, w, k, value, timeout, None, Some(c))

DefaultClient_add(self, w, key, value, timeout, version, client) ==
    LET c == IF client = None THEN DefaultClient_client(self) ELSE The(client)
        k == make_key(key, version)
        ex == Redis_exists(w, c, k)
    IN  IF ex.err THEN Raise(ex.w, "ConnectionInterrumped")
        ELSE IF ex.val THEN Return(ex.w, FALSE)
        ELSE self_set(self, ex.w, k, value, timeout, None, Some(c))

\* incr that counts a missing key as 0, as Redis' own INCR does
DefaultClient_incr_from_zero(self, w, key, delta, version, client) ==
    LET c == IF client = None THEN DefaultClient_client(self) ELSE The(client)
        k == make_key(key, version)
        got == self_get(self, w, k, Some(0), version, Some(c))
    IN  IF got.st # "ok" THEN got
        ELSE IF got.val = None THEN Raise(got.w, "TypeError")
        ELSE LET value == Some(The(got.val) + delta)
                 put == self_set(self, got.w, k, value, None, version, Some(c))
             IN  IF put.st # "ok" THEN put ELSE Return(put.w, value)

\* incr that writes the value back with the expiry the key had
DefaultClient_incr_keeps_ttl(self, w, key, delta, version, client) ==
    LET c == IF client = None THEN DefaultClient_client(self) ELSE The(client)
        k == make_key(key, version)
        ex == Redis_exists(w, c, k)
    IN  IF ex.err THEN Raise(ex.w, "ConnectionError")
        ELSE IF ~ex.val THEN Raise(ex.w, "ValueError")
        ELSE LET got == self_get(self, ex.w, k, None, version, Some(c))
             IN  IF got.st # "ok" THEN got
                 ELSE IF got.val = None THEN Raise(got.w, "TypeError")
                 ELSE LET value == Some(The(got.val) + delta)
                          ttl == Redis_ttl(got.w, c, k)
                          put == self_set(self, ttl.w, k, value,
                                          IF ttl.val = None THEN Some(0) ELSE ttl.val,
                                          version, Some(c))
                      IN  IF put.st # "ok" THEN put ELSE Return(put.w, value)

DefaultClient_incr(self, w, key, delta, version, client) ==
    LET c == IF client = None THEN DefaultClient_client(self) ELSE The(client)
        k == make_key(key, version)
        ex == Redis_exists(w, c, k)
    IN  IF ex.err THEN Raise(ex.w, "ConnectionError")
        ELSE IF ~ex.val THEN Raise(ex.w, "ValueError")
        ELSE LET got == self_get(self, ex.w, k, None, version, Some(c))
             IN  IF got.st # "ok" THEN got
                 ELSE IF got.val = None THEN Raise(got.w, "TypeError")
                 ELSE LET value == Some(The(got.val) + delta)
                          put == self_set(self, got.w, k, value, None, version, Some(c))
                      IN  IF put.st # "ok" THEN put ELSE Return(put.w, value)

DefaultClient_decr(self, w, key, delta, version, client) ==
    LET c == IF client = None THEN DefaultClient_client(self) ELSE The(client)
        k == make_key(key, version)
        has == self_has_key(self, w, k, None, None)
    IN  IF has.st # "ok" THEN has
        ELSE IF ~has.val THEN Raise(has.w, "ValueError")
        ELSE LET got == self_get(self, has.w, k, None, version, Some(c))
             IN  IF got.st # "ok" THEN got
                 ELSE IF got.val = None THEN Raise(got.w, "TypeError")
                 ELSE LET value == Some(The(got.val) - delta)
                          put == self_set(self, got.w, k, value, None, version, Some(c))
                      IN  IF put.st # "ok" THEN put ELSE Return(put.w, value)

-----------------------------------------------------------------------------
(* ShardClient, the remaining methods *)

ShardClient_add(self, w, key, value, timeout, version, client) ==
    IF client = None
    THEN LET k == make_key(key, version)
         IN  DefaultClient_add(self, w, k, value, None, version, Some(get_server(k)))
    ELSE DefaultClient_add(self, w, key, value, None, version, client)

ShardClient_incr_version(self, w, key, delta, version, client) ==
    IF client = None
    THEN LET k == make_key(key, version)
         IN  DefaultClient_incr_version(self, w, k, delta, version, Some(get_server(k)))
    ELSE DefaultClient_incr_version(self, w, key, delta, version, client)

ShardClient_incr(self, w, key, delta, version, client) ==
    IF client = None
    THEN LET k == make_key(key, version)
         IN  DefaultClient_incr(self, w, k, delta, version, Some(get_server(k)))
    ELSE DefaultClient_incr(self, w, key, delta, version, client)

ShardClient_decr(self, w, key, delta, version, client) ==
    IF client = None
    THEN LET k == make_key(key, version)
         IN  DefaultClient_decr(self, w, k, delta, version, Some(get_server(k)))
    ELSE DefaultClient_decr(self, w, key, delta, version, client)

\* recovered_data[key] = value on a SortedDict, kept as a sequence of <<key, value>>
SortedDictSet(d, key, value) ==
    IF \E i \in 1..Len(d) : d[i][1] = key
    THEN [i \in 1..Len(d) |-> IF d[i][1] = key THEN <<key, value>> ELSE d[i]]
    ELSE Append(d, <<key, value>>)

\* The loop of get_many reading every key from the client's own connection
RECURSIVE get_many_loop_unrouted(_, _, _, _, _, _)
get_many_loop_unrouted(self, w, keys, version, i, recovered_data) ==
    IF i > Len(keys) THEN Return(w, recovered_data)
    ELSE LET key == make_key(keys[i], version)
             client == DefaultClient_client(self)
             got == ShardClient_get(self, w, key, None, version, Some(client))
         IN  IF got.st # "ok" THEN got
             ELSE IF got.val = None
             THEN get_many_loop_unrouted(self, got.w, keys, version, i + 1, recovered_data)
             ELSE get_many_loop_unrouted(self, got.w, keys, version, i + 1,
                                         SortedDictSet(recovered_data, keys[i], got.val))

\* The loop of ShardClient.get_many over new_keys, from position i on
RECURSIVE get_many_loop(_, _, _, _, _, _)
get_many_loop(self, w, keys, version, i, recovered_data) ==
    IF i > Len(keys) THEN Return(w, recovered_data)
    ELSE LET key == make_key(keys[i], version)
             client == get_server(key)
             got == ShardClient_get(self, w, key, None, version, Some(client))
         IN  IF got.st # "ok" THEN got
             ELSE IF got.val = None
             THEN get_many_loop(self, got.w, keys, version, i + 1, recovered_data)
             ELSE get_many_loop(self, got.w, keys, version, i + 1,
                                SortedDictSet(recovered_data, keys[i], got.val))

ShardClient_get_many(self, w, keys, version) ==
    IF keys = <<>> THEN Return(w, <<>>)
    ELSE get_many_loop(self, w, keys, version, 1, <<>>)

\* The loop of ShardClient.set_many over data.iteritems(), a sequence of <<key, value>>
RECURSIVE set_many_loop(_, _, _, _, _, _)
set_many_loop(self, w, data, timeout, version, i) ==
    IF i > Len(data) THEN Return(w, None)
    ELSE LET put == ShardClient_set(self, w, data[i][1], data[i][2], timeout, version, None)
         IN  IF put.st # "ok" THEN put
             ELSE set_many_loop(self, put.w, data, timeout, version, i + 1)

ShardClient_set_many(self, w, data, timeout, version) ==
    set_many_loop(self, w, data, timeout, version, 1)

RECURSIVE delete_many_loop(_, _, _, _, _)
delete_many_loop(self, w, keys, version, i) ==
    IF i > Len(keys) THEN Return(w, None)
    ELSE LET key == make_key(keys[i], version)
             client == get_server(key)
             del == ShardClient_delete(self, w, key, None, Some(client))
         IN  IF del.st # "ok" THEN del
             ELSE delete_many_loop(self, del.w, keys, version, i + 1)

ShardClient_delete_many(self, w, keys, version) ==
    delete_many_loop(self, w, keys, version, 1)

-----------------------------------------------------------------------------
(* Pattern operations: KEYS, FLUSHDB and the methods built on them *)

\* The pattern matches the string: "*" stands for any run of characters
RECURSIVE GlobMatch(_, _)
GlobMatch(pat, s) ==
    IF pat = <<>> THEN s = <<>>
    ELSE IF Head(pat) = "*"
    THEN GlobMatch(Tail(pat), s) \/ (s # <<>> /\ GlobMatch(pat, Tail(s)))
    ELSE s # <<>> /\ Head(s) = Head(pat) /\ GlobMatch(Tail(pat), Tail(s))

\* A list holding every element of the set once: list(set(...))
ListOfSet(S) ==
    CHOOSE q \in [1..Cardinality(S) -> S] : {q[i] : i \in 1..Cardinality(S)} = S

\* The stored key of that name
KeyNamed(name) == CHOOSE k \in StoreKeys : str(k) = name

\* KEYS pattern: the names of the keys the server holds that match
Redis_keys(w, conn, pattern) ==
    Reply(Send(w, conn, "KEYS", {pattern}), Down(w, conn),
          ListOfSet({str(k) : k \in {x \in StoreKeys :
                        w.store[conn][x] # None /\ GlobMatch(str(pattern), str(x))}}))

\* DEL name ...: delete by name
Redis_delete_names(w, conn, names) ==
    Redis_delete(w, conn, {KeyNamed(names[i]) : i \in 1..Len(names)})

Redis_flushdb(w, conn) ==
    LET sent == Send(w, conn, "FLUSHDB", {})
    IN  Reply(IF Down(w, conn) THEN sent
              ELSE [sent EXCEPT !.store[conn] = [k \in StoreKeys |-> None]],
              Down(w, conn), TRUE)

\* x.split(":", 2)[2]: what follows the second ":"
Split2(x) ==
    LET colons == {i \in 1..Len(x) : x[i] = ":"}
        c1 == CHOOSE i \in colons : \A j \in colons : i <= j
        c2 == CHOOSE i \in colons \ {c1} : \A j \in colons \ {c1} : i <= j
    IN  SubSeq(x, c2 + 1, Len(x))

\* list(set(map(lambda x: x.split(":", 2)[2], keys)))
StripAll(keys) == ListOfSet({Split2(keys[i]) : i \in 1..Len(keys)})

DefaultClient_delete_pattern(self, w, pattern, version, client) ==
    LET c == IF client = None THEN DefaultClient_client(self) ELSE The(client)
        pat == make_key(pattern, version)
        found == Redis_keys(w, c, pat)
    IN  IF found.err THEN Raise(found.w, "ConnectionInterrumped")
        ELSE IF found.val = <<>> THEN Return(found.w, None)
        ELSE LET del == Redis_delete_names(found.w, c, found.val)
             IN  IF del.err THEN Raise(del.w, "ConnectionInterrumped")
                 ELSE Return(del.w, None)

DefaultClient_clear(self, w, client) ==
    LET c == IF client = None THEN DefaultClient_client(self) ELSE The(client)
        r == Redis_flushdb(w, c)
    IN  IF r.err THEN Raise(r.w, "ConnectionError") ELSE Return(r.w, None)

DefaultClient_keys(self, w, search, client) ==
    LET c == IF client = None THEN DefaultClient_client(self) ELSE The(client)
        pattern == make_key(search, None)
        found == Redis_keys(w, c, pattern)
    IN  IF found.err THEN Raise(found.w, "ConnectionInterrumped")
        ELSE Return(found.w, StripAll(found.val))

\* self._serverdict.items(): the connections of the configured servers
ServerItems == IF nodes = {} THEN <<>> ELSE ListOfSet(nodes)

\* for server, connection in self._serverdict.items(): keys.extend(connection.keys(pattern))
RECURSIVE collect_keys(_, _, _, _)
collect_keys(w, pattern, i, keys) ==
    IF i > Len(ServerItems) THEN Return(w, keys)
    ELSE LET found == Redis_keys(w, ServerItems[i], pattern)
         IN  IF found.err THEN Raise(found.w, "ConnectionError")
             ELSE collect_keys(found.w, pattern, i + 1, keys \o found.val)

\* keys that asks the client's own connection only
ShardClient_keys_unrouted(self, w, search) ==
    DefaultClient_keys(self, w, search, None)

ShardClient_keys(self, w, search) ==
    LET pattern == make_key(search, None)
        got == collect_keys(w, pattern, 1, <<>>)
    IN  IF got.st # "ok" THEN got
        ELSE Return(got.w, StripAll(got.val))

\* for server, connection in self._serverdict.items(): connection.delete(*keys)
RECURSIVE delete_everywhere(_, _, _)
delete_everywhere(w, keys, i) ==
    IF i > Len(ServerItems) THEN Return(w, None)
    ELSE LET del == Redis_delete_names(w, ServerItems[i], keys)
         IN  IF del.err THEN Raise(del.w, "ConnectionError")
             ELSE delete_everywhere(del.w, keys, i + 1)

\* delete_pattern that asks the client's own connection only
ShardClient_delete_pattern_unrouted(self, w, pattern, version) ==
    DefaultClient_delete_pattern(self, w, pattern, version, None)

ShardClient_delete_pattern(self, w, pattern, version) ==
    LET pat == make_key(pattern, version)
        got == collect_keys(w, pat, 1, <<>>)
    IN  IF got.st # "ok" THEN got
        ELSE IF got.val = <<>> THEN Return(got.w, None)
        ELSE delete_everywhere(got.w, got.val, 1)

-----------------------------------------------------------------------------
(* MasterSlaveClient, the remaining methods *)

MasterSlaveClient_incr_version(self, w, key, delta, version, client) ==
    LET c == IF client = None THEN get_for_write ELSE The(client)
        v == IF version = None THEN BackendVersion ELSE The(version)
        old_key == make_key(key, Some(v))
        got == self_get(self, w, old_key, None, Some(v), Some(c))
    IN  IF got.st # "ok" THEN got
        ELSE LET ttl == Redis_ttl(got.w, c, old_key)
             IN  IF ttl.err THEN Raise(ttl.w, "ConnectionInterrumped")
                 ELSE IF got.val = None THEN Raise(ttl.w, "ValueError")
                 ELSE LET new_key == IF IsCacheKey(key)
                                     THEN make_key(original_key(key), Some(v + delta))
                                     ELSE make_key(key, Some(v + delta))
                          put == self_set(self, ttl.w, new_key, got.val, ttl.val, None, None)
                      IN  IF put.st # "ok" THEN put
                          ELSE LET del == self_delete(self, put.w, old_key, None, Some(c))
                               IN  IF del.st # "ok" THEN del
                                   ELSE Return(del.w, Some(v + delta))

MasterSlaveClient_add(self, w, key, value, timeout, version, client) ==
    LET c == IF client = None THEN get_for_write ELSE The(client)
        k == make_key(key, version)
        ex == Redis_exists(w, c, k)
    IN  IF ex.err THEN Raise(ex.w, "ConnectionInterrumped")
        ELSE IF ex.val THEN Return(ex.w, FALSE)
        ELSE self_set(self, ex.w, k, value, timeout, None, Some(c))

MasterSlaveClient_delete_pattern(self, w, pattern, version, client) ==
    LET c == IF client = None THEN get_for_write ELSE The(client)
        pat == make_key(pattern, version)
        found == Redis_keys(w, c, pat)
    IN  IF found.err THEN Raise(found.w, "ConnectionInterrumped")
        ELSE IF found.val = <<>> THEN Return(found.w, None)
        ELSE LET del == Redis_delete_names(found.w, c, found.val)
             IN  IF del.err THEN Raise(del.w, "ConnectionInterrumped")
                 ELSE Return(del.w, None)

MasterSlaveClient_delete_many(self, w, keys, version, client) ==
    LET c == IF client = None THEN get_for_write ELSE The(client)
    IN  IF keys = <<>> THEN Return(w, None)
        ELSE LET r == Redis_delete(w, c, {make_key(keys[i], version) : i \in 1..Len(keys)})
             IN  IF r.err THEN Raise(r.w, "ConnectionInterrumped") ELSE Return(r.w, None)

\* MGET: the values of the keys, None for a key the server does not hold
Redis_mget(w, conn, keys) ==
    Reply(Send(w, conn, "MGET", {keys[i] : i \in 1..Len(keys)}), Down(w, conn),
          [i \in 1..Len(keys) |->
              IF w.store[conn][keys[i]] = None THEN None
              ELSE Some(The(w.store[conn][keys[i]]).val)])

\* for key, value in zip(new_keys, results), from position i on
RECURSIVE recover(_, _, _, _)
recover(keys, results, i, recovered_data) ==
    IF i > Len(keys) THEN recovered_data
    ELSE IF results[i] = None THEN recover(keys, results, i + 1, recovered_data)
    ELSE recover(keys, results, i + 1,
                 SortedDictSet(recovered_data, keys[i], unpickle(The(results[i]))))

MasterSlaveClient_get_many(self, w, keys, version, client) ==
    LET c == IF client = None THEN get_for_read ELSE The(client)
    IN  IF keys = <<>> THEN Return(w, <<>>)
        ELSE LET new_keys == [i \in 1..Len(keys) |-> make_key(keys[i], version)]
                 r == Redis_mget(w, c, new_keys)
             IN  IF r.err THEN Raise(r.w, "ConnectionInterrumped")
                 ELSE Return(r.w, recover(keys, r.val, 1, <<>>))

\* The sets of set_many, queued on a pipeline of the connection and executed together
RECURSIVE pipeline_sets(_, _, _, _, _, _, _)
pipeline_sets(self, w, c, data, timeout, version, i) ==
    IF i > Len(data) THEN Return(w, None)
    ELSE LET put == self_set(self, w, data[i][1], data[i][2], timeout, version, Some(c))
         IN  IF put.st # "ok" THEN Raise(put.w, "ConnectionInterrumped")
             ELSE pipeline_sets(self, put.w, c, data, timeout, version, i + 1)

MasterSlaveClient_set_many(self, w, data, timeout, version, client) ==
    LET c == IF client = None THEN get_for_write ELSE The(client)
    IN  pipeline_sets(self, w, c, data, timeout, version, 1)

MasterSlaveClient_incr(self, w, key, delta, version, client) ==
    LET c == IF client = None THEN get_for_write ELSE The(client)
        k == make_key(key, version)
        ex == Redis_exists(w, c, k)
    IN  IF ex.err THEN Raise(ex.w, "ConnectionError")
        ELSE IF ~ex.val THEN Raise(ex.w, "ValueError")
        ELSE LET got == self_get(self, ex.w, k, None, version, Some(c))
             IN  IF got.st # "ok" THEN got
                 ELSE IF got.val = None THEN Raise(got.w, "TypeError")
                 ELSE LET value == Some(The(got.val) + delta)
                          put == self_set(self, got.w, k, value, None, version, Some(c))
                      IN  IF put.st # "ok" THEN put ELSE Return(put.w, value)

MasterSlaveClient_decr(self, w, key, delta, version, client) ==
    LET c == IF client = None THEN get_for_write ELSE The(client)
        k == make_key(key, version)
        has == self_has_key(self, w, k, None, None)
    IN  IF has.st # "ok" THEN has
        ELSE IF ~has.val THEN Raise(has.w, "ValueError")
        ELSE LET got == self_get(self, has.w, k, None, version, Some(c))
             IN  IF got.st # "ok" THEN got
                 ELSE IF got.val = None THEN Raise(got.w, "TypeError")
                 ELSE LET value == Some(The(got.val) - delta)
                          put == self_set(self, got.w, k, value, None, version, Some(c))
                      IN  IF put.st # "ok" THEN put ELSE Return(put.w, value)

MasterSlaveClient_keys(self, w, search, client) ==
    LET c == IF client = None THEN get_for_read ELSE The(client)
        pattern == make_key(search, None)
        found == Redis_keys(w, c, pattern)
    IN  IF found.err THEN Raise(found.w, "ConnectionInterrumped")
        ELSE Return(found.w, StripAll(found.val))

-----------------------------------------------------------------------------
(* DefaultClient.get_many *)

DefaultClient_get_many(self, w, keys, version, client) ==
    LET c == IF client = None THEN DefaultClient_client(self) ELSE The(client)
    IN  IF keys = <<>> THEN Return(w, <<>>)
        ELSE LET new_keys == [i \in 1..Len(keys) |-> make_key(keys[i], version)]
                 r == Redis_mget(w, c, new_keys)
             IN  IF r.err THEN Raise(r.w, "ConnectionInterrumped")
                 ELSE Return(r.w, recover(keys, r.val, 1, <<>>))

-----------------------------------------------------------------------------
(* The facade, as the caller reaches it on a client of class klass *)

Sharded == klass = "ShardClient"

cache_set(w, key, value, timeout, version) ==
    self_set(klass, w, key, value, timeout, version, None)

cache_get(w, key, default, version) ==
    self_get(klass, w, key, default, version, None)

cache_delete(w, key, version) ==
    self_delete(klass, w, key, version, None)

cache_has_key(w, key, version) ==
    self_has_key(klass, w, key, version, None)

cache_add(w, key, value, timeout, version) ==
    IF Sharded THEN ShardClient_add(klass, w, key, value, timeout, version, None)
    ELSE IF klass = "MasterSlaveClient"
    THEN MasterSlaveClient_add(klass, w, key, value, timeout, version, None)
    ELSE DefaultClient_add(klass, w, key, value, timeout, version, None)

cache_incr(w, key, delta, version) ==
    IF Sharded THEN ShardClient_incr(klass, w, key, delta, version, None)
    ELSE IF klass = "MasterSlaveClient"
    THEN MasterSlaveClient_incr(klass, w, key, delta, version, None)
    ELSE DefaultClient_incr(klass, w, key, delta, version, None)

cache_decr(w, key, delta, version) ==
    IF Sharded THEN ShardClient_decr(klass, w, key, delta, version, None)
    ELSE IF klass = "MasterSlaveClient"
    THEN MasterSlaveClient_decr(klass, w, key, delta, version, None)
    ELSE DefaultClient_decr(klass, w, key, delta, version, None)

cache_incr_version(w, key, delta, version) ==
    IF Sharded THEN ShardClient_incr_version(klass, w, key, delta, version, None)
    ELSE IF klass = "MasterSlaveClient"
    THEN MasterSlaveClient_incr_version(klass, w, key, delta, version, None)
    ELSE DefaultClient_incr_version(klass, w, key, delta, version, None)

-----------------------------------------------------------------------------
(* The state machine: one action per facade call, and the passing of time *)

EmptyStore == [c \in Conns |-> [k \in StoreKeys |-> None]]

\* The transport failures a call may meet: none, or one connection failing
BadSets == {{}} \cup {{c} : c \in IF klass = "DefaultClient" THEN {"client"} ELSE Nodes}

\* The timeouts callers pass: with a default timeout of 0, None and 0 are one case
TimeoutArgs == IF default_timeout = 0 THEN {None, Some(MaxTTL)} ELSE Timeouts

WorldOf(st, bad) == [store |-> st, log |-> <<>>, bad |-> bad]

World(bad) == WorldOf(store, bad)

IsWrite(cmd) == cmd \in {"SET", "SETEX"}

WrittenBy(log) ==
    UNION {log[i].keys : i \in {j \in 1..Len(log) : IsWrite(log[j].cmd)}}

\* No call is running: the caller has taken the outcome of its last call
NoCall == [op |-> "none", st |-> "ok"]

\* The state after a call that ended as r, its outcome in the caller's hands
Done(r, call) ==
    /\ nops < MaxOps
    /\ last = NoCall
    /\ store' = r.w.store
    /\ last' = call @@ [st |-> r.st, val |-> r.val, log |-> r.w.log, bad |-> r.w.bad]
    /\ written' = written \cup WrittenBy(r.w.log)
    /\ nops' = nops + 1
    /\ UNCHANGED <<default_timeout, klass, nodes, calls, _client>>

VersionArgs == {None, Some(2)}      \* the version arguments callers pass

Defaults == {None, Some(0)}         \* the defaults callers pass to get

Set ==
    \E key \in RawKeys, value \in PyValues, timeout \in TimeoutArgs,
       version \in VersionArgs, bad \in BadSets :
        Done(cache_set(World(bad), Raw(key), value, timeout, version),
             [op |-> "set", key |-> key, value |-> value, timeout |-> timeout,
              version |-> version])

Get ==
    \E key \in RawKeys, default \in Defaults, version \in VersionArgs, bad \in BadSets :
        Done(cache_get(World(bad), Raw(key), default, version),
             [op |-> "get", key |-> key, default |-> default, version |-> version])

Add ==
    \E key \in RawKeys, value \in PyValues, timeout \in TimeoutArgs,
       version \in VersionArgs, bad \in BadSets :
        Done(cache_add(World(bad), Raw(key), value, timeout, version),
             [op |-> "add", key |-> key, value |-> value, timeout |-> timeout,
              version |-> version])

Delete ==
    \E key \in RawKeys, version \in VersionArgs, bad \in BadSets :
        Done(cache_delete(World(bad), Raw(key), version),
             [op |-> "delete", key |-> key, version |-> version])

HasKey ==
    \E key \in RawKeys, version \in VersionArgs, bad \in BadSets :
        Done(cache_has_key(World(bad), Raw(key), version),
             [op |-> "has_key", key |-> key, version |-> version])

Incr ==
    \E key \in RawKeys, version \in VersionArgs, bad \in BadSets :
        Done(cache_incr(World(bad), Raw(key), 1, version),
             [op |-> "incr", key |-> key, delta |-> 1, version |-> version])

Decr ==
    \E key \in RawKeys, version \in VersionArgs, bad \in BadSets :
        Done(cache_decr(World(bad), Raw(key), 1, version),
             [op |-> "decr", key |-> key, delta |-> 1, version |-> version])

\* The version the call resolves its version argument to
VersionOf(version) == IF version = None THEN BackendVersion ELSE The(version)

IncrVersion ==
    \E key \in RawKeys, delta \in Deltas, version \in VersionArgs, bad \in BadSets :
        /\ VersionOf(version) + delta \in Versions
        /\ Done(cache_incr_version(World(bad), Raw(key), delta, version),
                [op |-> "incr_version", key |-> key, delta |-> delta, version |-> version])

KeyLists == {<<>>} \cup {<<k>> : k \in RawKeys} \cup {<<k1, k2>> : k1 \in RawKeys, k2 \in RawKeys}

GetMany ==
    \E keys \in KeyLists, version \in VersionArgs, bad \in BadSets :
        /\ Sharded
        /\ Done(ShardClient_get_many(klass, World(bad), [i \in 1..Len(keys) |-> Raw(keys[i])], version),
                [op |-> "get_many", keys |-> keys, version |-> version])

DataLists ==
    {<<<<k, v>>>> : k \in RawKeys, v \in PyValues}
    \cup {d \in {<<<<k1, v1>>, <<k2, v2>>>> : k1 \in RawKeys, k2 \in RawKeys,
                                               v1 \in PyValues, v2 \in PyValues} :
            d[1][1] # d[2][1]}

SetMany ==
    \E data \in DataLists, timeout \in {None}, version \in VersionArgs, bad \in BadSets :
        /\ Sharded
        /\ Done(ShardClient_set_many(klass, World(bad),
                    [i \in 1..Len(data) |-> <<Raw(data[i][1]), data[i][2]>>], timeout, version),
                [op |-> "set_many", data |-> data, timeout |-> timeout, version |-> version])

DeleteMany ==
    \E keys \in KeyLists, version \in VersionArgs, bad \in BadSets :
        /\ Sharded
        /\ Done(ShardClient_delete_many(klass, World(bad), [i \in 1..Len(keys) |-> Raw(keys[i])], version),
                [op |-> "delete_many", keys |-> keys, version |-> version])

\* One second passes on every server: expiries count down, and an entry whose
\* expiry runs out is gone
Aged(entry) ==
    IF entry = None \/ The(entry).exp = None THEN entry
    ELSE IF The(The(entry).exp) = 1 THEN None
    ELSE Some([The(entry) EXCEPT !.exp = Some(The(@) - 1)])

Tick ==
    /\ last = NoCall
    /\ \E c \in Conns, k \in StoreKeys : store[c][k] # None /\ The(store[c][k]).exp # None
    /\ store' = [c \in Conns |-> [k \in StoreKeys |-> Aged(store[c][k])]]
    /\ UNCHANGED <<default_timeout, last, written, nops, klass, nodes, calls, _client>>

\* The call returns: the caller goes on with its outcome
Returned ==
    /\ last # NoCall
    /\ last' = NoCall
    /\ UNCHANGED <<store, default_timeout, written, nops, klass, nodes, calls, _client>>

DefaultTimeouts == {0, MaxTTL}

InitOf(cls, timeouts) ==
    /\ store = EmptyStore
    /\ default_timeout \in timeouts
    /\ last = NoCall
    /\ written = {}
    /\ nops = 0
    /\ klass = cls
    /\ nodes = (IF cls = "DefaultClient" THEN {} ELSE Nodes)
    /\ calls = <<>>
    /\ _client = Some("client")

Init == InitOf("DefaultClient", DefaultTimeouts)

Next ==
    \/ Set \/ Get \/ Add \/ Delete \/ HasKey
    \/ Incr \/ Decr \/ IncrVersion \/ Tick \/ Returned

Spec == Init /\ [][Next]_vars

InitShard == InitOf("ShardClient", {0})

NextShard ==
    \/ Set \/ Get \/ Add \/ Delete \/ HasKey
    \/ Incr \/ Decr \/ IncrVersion \/ Tick \/ Returned
    \/ GetMany \/ SetMany \/ DeleteMany

SpecShard == InitShard /\ [][NextShard]_vars

-----------------------------------------------------------------------------
(* Pattern operations of a ShardClient, over servers that already hold entries *)

Patterns == {<<"*">>, <<"a">>}      \* the patterns callers pass

\* A server holds any of the stored keys with the value 1 and no expiry, also
\* keys of another server: incr_version writes a key's next version where
\* the old one was, so every key can come to lie on every server
ScanStores ==
    {[c \in Conns |-> [k \in StoreKeys |->
          IF c \in Nodes /\ k \in held[c] THEN Some([val |-> pickle(Some(1)), exp |-> None])
          ELSE None]] : held \in [Nodes -> SUBSET {k \in StoreKeys : k.version = 1 \/ k.raw = <<"a">>}]}

InitScan ==
    /\ store \in ScanStores
    /\ default_timeout = 0
    /\ last = NoCall
    /\ written = {k \in StoreKeys : \E c \in Conns : store[c][k] # None}
    /\ nops = 0
    /\ klass = "ShardClient"
    /\ nodes = Nodes
    /\ calls = <<>>
    /\ _client = Some("client")

Keys ==
    \E search \in Patterns, bad \in BadSets :
        Done(ShardClient_keys(klass, World(bad), Raw(search)),
             [op |-> "keys", search |-> search])

DeletePattern ==
    \E pattern \in Patterns, version \in VersionArgs, bad \in BadSets :
        Done(ShardClient_delete_pattern(klass, World(bad), Raw(pattern), version),
             [op |-> "delete_pattern", pattern |-> pattern, version |-> version])

Clear ==
    \E bad \in {{}, {"client"}} :
        Done(DefaultClient_clear(klass, World(bad), None), [op |-> "clear"])

NextScan == Keys \/ DeletePattern \/ Clear \/ Returned

SpecScan == InitScan /\ [][NextScan]_vars

-----------------------------------------------------------------------------
(* A MasterSlaveClient over a master and a slave that replicates it *)

InitMasterSlave == InitOf("MasterSlaveClient", {0})

GetManyOnSlave ==
    \E keys \in KeyLists, version \in VersionArgs, bad \in BadSets :
        Done(MasterSlaveClient_get_many(klass, World(bad),
                 [i \in 1..Len(keys) |-> Raw(keys[i])], version, None),
             [op |-> "get_many", keys |-> keys, version |-> version])

SetManyOnMaster ==
    \E data \in DataLists, version \in VersionArgs, bad \in BadSets :
        Done(MasterSlaveClient_set_many(klass, World(bad),
                 [i \in 1..Len(data) |-> <<Raw(data[i][1]), data[i][2]>>], None, version, None),
             [op |-> "set_many", data |-> data, timeout |-> None, version |-> version])

DeleteManyOnMaster ==
    \E keys \in KeyLists, version \in VersionArgs, bad \in BadSets :
        Done(MasterSlaveClient_delete_many(klass, World(bad),
                 [i \in 1..Len(keys) |-> Raw(keys[i])], version, None),
             [op |-> "delete_many", keys |-> keys, version |-> version])

DeletePatternOnMaster ==
    \E pattern \in Patterns, version \in VersionArgs, bad \in BadSets :
        Done(MasterSlaveClient_delete_pattern(klass, World(bad), Raw(pattern), version, None),
             [op |-> "delete_pattern", pattern |-> pattern, version |-> version])

KeysOnSlave ==
    \E search \in Patterns, bad \in BadSets :
        Done(MasterSlaveClient_keys(klass, World(bad), Raw(search), None),
             [op |-> "keys", search |-> search])

\* The slave catches up with its master
Replicate ==
    /\ last = NoCall
    /\ store[get_for_read] # store[get_for_write]
    /\ store' = [store EXCEPT ![get_for_read] = store[get_for_write]]
    /\ UNCHANGED <<default_timeout, last, written, nops, klass, nodes, calls, _client>>

NextMasterSlave ==
    \/ Set \/ Get \/ Add \/ Delete \/ HasKey
    \/ Incr \/ Decr \/ IncrVersion
    \/ GetManyOnSlave \/ SetManyOnMaster \/ DeleteManyOnMaster
    \/ DeletePatternOnMaster \/ KeysOnSlave
    \/ Replicate \/ Returned

SpecMasterSlave == InitMasterSlave /\ [][NextMasterSlave]_vars

-----------------------------------------------------------------------------
(* set with every kind of timeout, on a DefaultClient and on a              *)
(* MasterSlaveClient, under every kind of default timeout                   *)

AllTimeouts == {None, Some(-1), Some(0), Some(1), Some(MaxTTL)}

AllDefaultTimeouts == {-1, 0, MaxTTL}

InitSet ==
    \E cls \in {"DefaultClient", "MasterSlaveClient"} : InitOf(cls, AllDefaultTimeouts)

SetAnyTimeout ==
    \E key \in RawKeys, value \in PyValues, timeout \in AllTimeouts,
       version \in VersionArgs, bad \in BadSets :
        Done(cache_set(World(bad), Raw(key), value, timeout, version),
             [op |-> "set", key |-> key, value |-> value,
              timeout |-> timeout, version |-> version])

NextSet == SetAnyTimeout \/ Get \/ Tick \/ Returned

SpecSet == InitSet /\ [][NextSet]_vars

-----------------------------------------------------------------------------
(* A DefaultClient on the server "client" and a ShardClient configured with *)
(* the one node "s1", given the same calls                                  *)

InitPair ==
    /\ store = EmptyStore
    /\ default_timeout \in DefaultTimeouts
    /\ last = NoCall
    /\ written = {}
    /\ nops = 0
    /\ klass = "ShardClient"
    /\ nodes = {"s1"}
    /\ calls = <<>>
    /\ _client = Some("client")

\* The call has ended as ref on the DefaultClient and as r on the ShardClient
Both(ref, r, call) ==
    Done(r, call @@ [ref_st |-> ref.st, ref_val |-> ref.val])

SetOnBoth ==
    \E key \in RawKeys, value \in PyValues, timeout \in TimeoutArgs, version \in VersionArgs :
        LET ref == DefaultClient_set("DefaultClient", World({}), Raw(key), value, timeout, version, None)
        IN  Both(ref, ShardClient_set("ShardClient", ref.w, Raw(key), value, timeout, version, None),
                 [op |-> "set", key |-> key, value |-> value, timeout |-> timeout, version |-> version])

AddOnBoth ==
    \E key \in RawKeys, value \in PyValues, timeout \in TimeoutArgs, version \in VersionArgs :
        LET ref == DefaultClient_add("DefaultClient", World({}), Raw(key), value, timeout, version, None)
        IN  Both(ref, ShardClient_add("ShardClient", ref.w, Raw(key), value, timeout, version, None),
                 [op |-> "add", key |-> key, value |-> value, timeout |-> timeout, version |-> version])

GetOnBoth ==
    \E key \in RawKeys, default \in Defaults, version \in VersionArgs :
        LET ref == DefaultClient_get("DefaultClient", World({}), Raw(key), default, version, None)
        IN  Both(ref, ShardClient_get("ShardClient", ref.w, Raw(key), default, version, None),
                 [op |-> "get", key |-> key, default |-> default, version |-> version])

GetManyOnBoth ==
    \E keys \in KeyLists, version \in VersionArgs :
        LET ks == [i \in 1..Len(keys) |-> Raw(keys[i])]
            ref == DefaultClient_get_many("DefaultClient", World({}), ks, version, None)
        IN  Both(ref, ShardClient_get_many("ShardClient", ref.w, ks, version),
                 [op |-> "get_many", keys |-> keys, version |-> version])

HasKeyOnBoth ==
    \E key \in RawKeys, version \in VersionArgs :
        LET ref == DefaultClient_has_key("DefaultClient", World({}), Raw(key), version, None)
        IN  Both(ref, self_has_key("ShardClient", ref.w, Raw(key), version, None),
                 [op |-> "has_key", key |-> key, version |-> version])

DeleteOnBoth ==
    \E key \in RawKeys, version \in VersionArgs :
        LET ref == DefaultClient_delete("DefaultClient", World({}), Raw(key), version, None)
        IN  Both(ref, ShardClient_delete("ShardClient", ref.w, Raw(key), version, None),
                 [op |-> "delete", key |-> key, version |-> version])

IncrOnBoth ==
    \E key \in RawKeys, version \in VersionArgs :
        LET ref == DefaultClient_incr("DefaultClient", World({}), Raw(key), 1, version, None)
        IN  Both(ref, ShardClient_incr("ShardClient", ref.w, Raw(key), 1, version, None),
                 [op |-> "incr", key |-> key, delta |-> 1, version |-> version])

DecrOnBoth ==
    \E key \in RawKeys, version \in VersionArgs :
        LET ref == DefaultClient_decr("DefaultClient", World({}), Raw(key), 1, version, None)
        IN  Both(ref, ShardClient_decr("ShardClient", ref.w, Raw(key), 1, version, None),
                 [op |-> "decr", key |-> key, delta |-> 1, version |-> version])

IncrVersionOnBoth ==
    \E key \in RawKeys, delta \in Deltas, version \in VersionArgs :
        /\ VersionOf(version) + delta \in Versions
        /\ LET ref == DefaultClient_incr_version("DefaultClient", World({}), Raw(key), delta, version, None)
           IN  Both(ref, ShardClient_incr_version("ShardClient", ref.w, Raw(key), delta, version, None),
                    [op |-> "incr_version", key |-> key, delta |-> delta, version |-> version])

NextPair ==
    \/ SetOnBoth \/ AddOnBoth \/ GetOnBoth \/ GetManyOnBoth \/ HasKeyOnBoth
    \/ DeleteOnBoth \/ IncrOnBoth \/ DecrOnBoth \/ IncrVersionOnBoth
    \/ Tick \/ Returned

SpecPair == InitPair /\ [][NextPair]_vars

-----------------------------------------------------------------------------
(* The routing of keys that carry braces *)

Tags == {<<"a">>, <<"b">>}

\* What a key holds before and after its tag
Fragments == {<<>>, <<"a">>, <<"{">>, <<"}">>, <<"a", "}">>, <<"{", "b", "}">>}

RingPrefixes == {"p", "q", "{"}

RingRaws ==
    {pre \o <<"{">> \o tag \o <<"}">> \o post : pre \in Fragments, tag \in Tags, post \in Fragments}
    \cup {pre \o post : pre \in Fragments, post \in Fragments}

\* The versioned keys make_key hands to get_server_name
RingKeys ==
    {[prefix |-> p, version |-> v, raw |-> r] : p \in RingPrefixes, v \in Versions, r \in RingRaws}

InitRing == InitOf("ShardClient", {0})

\* get_server_name is asked for two keys
Route ==
    /\ last = NoCall
    /\ \E k1 \in RingKeys, k2 \in RingKeys :
           last' = [op |-> "get_server_name", st |-> "ok", keys |-> <<k1, k2>>,
                    val |-> <<get_server_name(k1), get_server_name(k2)>>]
    /\ UNCHANGED <<store, default_timeout, written, nops, klass, nodes, calls, _client>>

NextRing == Route \/ Returned

SpecRing == InitRing /\ [][NextRing]_vars

-----------------------------------------------------------------------------
(* Two concurrent callers of one DefaultClient.  The client takes no lock   *)
(* and opens no transaction, so the calls interleave between the commands   *)
(* they send; each command is served atomically.  A frame f is a call in    *)
(* progress: its arguments, the command it sends next (pc), its local       *)
(* variable value, and its outcome once done.  A step yields [w, f].        *)

Callers == {1, 2}

Ended(w, f, st, val) == [w |-> w, f |-> [f EXCEPT !.pc = "done", !.st = st, !.val = val]]

\* add that stores with the server's SETNX
add_step_setnx(self, w, f) ==
    LET c == DefaultClient_client(self)
        k == make_key(Raw(f.key), f.version)
    IN  IF f.pc = "exists"
        THEN LET ex == Redis_exists(w, c, k)
             IN  IF ex.err THEN Ended(ex.w, f, "ConnectionInterrumped", None)
                 ELSE IF ex.val THEN Ended(ex.w, f, "ok", FALSE)
                 ELSE [w |-> ex.w, f |-> [f EXCEPT !.pc = "set"]]
        ELSE IF w.store[c][k] # None THEN Ended(Send(w, c, "SETNX", {k}), f, "ok", FALSE)
        ELSE LET put == self_set(self, w, k, f.value, f.timeout, None, Some(c))
             IN  Ended(put.w, f, put.st, put.val)

\* DefaultClient.add, a command at a time: EXISTS, then the command of set
add_step(self, w, f) ==
    LET c == DefaultClient_client(self)
        k == make_key(Raw(f.key), f.version)
    IN  IF f.pc = "exists"
        THEN LET ex == Redis_exists(w, c, k)
             IN  IF ex.err THEN Ended(ex.w, f, "ConnectionInterrumped", None)
                 ELSE IF ex.val THEN Ended(ex.w, f, "ok", FALSE)
                 ELSE [w |-> ex.w, f |-> [f EXCEPT !.pc = "set"]]
        ELSE LET put == self_set(self, w, k, f.value, f.timeout, None, Some(c))
             IN  Ended(put.w, f, put.st, put.val)

\* incr that adds delta to what the server holds when it stores
incr_step_incrby(self, w, f) ==
    LET c == DefaultClient_client(self)
        k == make_key(Raw(f.key), f.version)
    IN  CASE f.pc = "exists" ->
                LET ex == Redis_exists(w, c, k)
                IN  IF ex.err THEN Ended(ex.w, f, "ConnectionError", None)
                    ELSE IF ~ex.val THEN Ended(ex.w, f, "ValueError", None)
                    ELSE [w |-> ex.w, f |-> [f EXCEPT !.pc = "get"]]
          [] f.pc = "get" ->
                LET got == self_get(self, w, k, None, f.version, Some(c))
                IN  IF got.st # "ok" THEN Ended(got.w, f, got.st, None)
                    ELSE IF got.val = None THEN Ended(got.w, f, "TypeError", None)
                    ELSE [w |-> got.w,
                          f |-> [f EXCEPT !.pc = "set", !.value = Some(The(got.val) + f.delta)]]
          [] OTHER ->
                LET now == self_get(self, w, k, None, f.version, Some(c))
                    value == IF now.val = None THEN f.value ELSE Some(The(now.val) + f.delta)
                    put == self_set(self, w, k, value, None, f.version, Some(c))
                IN  IF put.st # "ok" THEN Ended(put.w, f, put.st, None)
                    ELSE Ended(put.w, f, "ok", value)

\* DefaultClient.incr, a command at a time: EXISTS, the GET of get and the
\* addition, then the command of set
incr_step(self, w, f) ==
    LET c == DefaultClient_client(self)
        k == make_key(Raw(f.key), f.version)
    IN  CASE f.pc = "exists" ->
                LET ex == Redis_exists(w, c, k)
                IN  IF ex.err THEN Ended(ex.w, f, "ConnectionError", None)
                    ELSE IF ~ex.val THEN Ended(ex.w, f, "ValueError", None)
                    ELSE [w |-> ex.w, f |-> [f EXCEPT !.pc = "get"]]
          [] f.pc = "get" ->
                LET got == self_get(self, w, k, None, f.version, Some(c))
                IN  IF got.st # "ok" THEN Ended(got.w, f, got.st, None)
                    ELSE IF got.val = None THEN Ended(got.w, f, "TypeError", None)
                    ELSE [w |-> got.w,
                          f |-> [f EXCEPT !.pc = "set", !.value = Some(The(got.val) + f.delta)]]
          [] OTHER ->
                LET put == self_set(self, w, k, f.value, None, f.version, Some(c))
                IN  IF put.st # "ok" THEN Ended(put.w, f, put.st, None)
                    ELSE Ended(put.w, f, "ok", f.value)

\* DefaultClient.delete: its one command
delete_step(self, w, f) ==
    LET r == DefaultClient_delete(self, w, Raw(f.key), f.version, None)
    IN  Ended(r.w, f, r.st, r.val)

RaceDeltas == {1, 2}

\* The calls a caller may be making
AddFrames ==
    {[op |-> "add", pc |-> "exists", key |-> key, value |-> value, timeout |-> None,
      delta |-> 0, version |-> None, st |-> "running", val |-> None] :
        key \in RawKeys, value \in PyValues}

IncrFrames ==
    {[op |-> "incr", pc |-> "exists", key |-> key, value |-> None, timeout |-> None,
      delta |-> delta, version |-> None, st |-> "running", val |-> None] :
        key \in RawKeys, delta \in RaceDeltas}

DeleteFrames ==
    {[op |-> "delete", pc |-> "delete", key |-> key, value |-> None, timeout |-> None,
      delta |-> 0, version |-> None, st |-> "running", val |-> None] :
        key \in RawKeys}

\* Before the calls, the key "a" is absent or holds the number 1
RaceStores ==
    {EmptyStore,
     [EmptyStore EXCEPT !["client"][make_key(Raw(<<"a">>), None)] =
         Some([val |-> pickle(Some(1)), exp |-> None])]}

\* calls holds the two frames, the store the calls started from and the
\* commands the server has served since, in the order it served them
InitRace ==
    /\ store \in RaceStores
    /\ default_timeout = 0
    /\ last = NoCall
    /\ written = {}
    /\ nops = 0
    /\ klass = "DefaultClient"
    /\ nodes = {}
    /\ \E f1 \in AddFrames \cup IncrFrames \cup DeleteFrames,
          f2 \in AddFrames \cup IncrFrames \cup DeleteFrames :
           calls = [frames |-> <<f1, f2>>, before |-> store, trace |-> <<>>]
    /\ _client = Some("client")

\* The caller's call ran on to r: the server served the commands of r.w.log
Stepped(i, r) ==
    /\ store' = r.w.store
    /\ calls' = [calls EXCEPT
                    !.frames[i] = r.f,
                    !.trace = @ \o [n \in 1..Len(r.w.log) |->
                                       [caller |-> i, cmd |-> r.w.log[n].cmd,
                                        keys |-> r.w.log[n].keys]]]
    /\ written' = written \cup WrittenBy(r.w.log)
    /\ UNCHANGED <<default_timeout, last, nops, klass, nodes, _client>>

AddStep ==
    \E i \in Callers :
        /\ calls.frames[i].op = "add"
        /\ calls.frames[i].pc # "done"
        /\ Stepped(i, add_step(klass, World({}), calls.frames[i]))

IncrStep ==
    \E i \in Callers :
        /\ calls.frames[i].op = "incr"
        /\ calls.frames[i].pc # "done"
        /\ Stepped(i, incr_step(klass, World({}), calls.frames[i]))

DeleteStep ==
    \E i \in Callers :
        /\ calls.frames[i].op = "delete"
        /\ calls.frames[i].pc # "done"
        /\ Stepped(i, delete_step(klass, World({}), calls.frames[i]))

NextRace == AddStep \/ IncrStep \/ DeleteStep

SpecRace == InitRace /\ [][NextRace]_vars

-----------------------------------------------------------------------------
(* close, and the property client that opens the connection it finds unset *)

\* connect: a new connection to self._server
DefaultClient_connect(self) == "client"

\* close that takes the attribute self._client where the code takes the property
DefaultClient_close_cached_only(self, cached) ==
    IF cached = None
    THEN [st |-> "AttributeError", val |-> None, connected |-> FALSE,
          closed |-> None, cached |-> cached]
    ELSE [st |-> "ok", val |-> None, connected |-> FALSE,
          closed |-> cached, cached |-> None]

\* DefaultClient.close: self.client.close(), then del self._client.  cached is
\* self._client before the call; the outcome tells whether the property had
\* to connect, which connection was closed and what self._client is left as
DefaultClient_close(self, cached) ==
    LET opened == cached = None
        client == IF opened THEN Some(DefaultClient_connect(self)) ELSE cached
    IN  [st |-> "ok", val |-> None, connected |-> opened,
         closed |-> client, cached |-> None]

\* The state after a call that went through the property client and ended as
\* r; the call remembers the call it follows
Through(r, call) ==
    /\ nops < MaxOps
    /\ store' = r.w.store
    /\ last' = call @@ [st |-> r.st, val |-> r.val, log |-> r.w.log, bad |-> r.w.bad,
                        after |-> last.op, after_st |-> last.st]
    /\ written' = written \cup WrittenBy(r.w.log)
    /\ nops' = nops + 1
    /\ _client' = IF _client = None THEN Some(DefaultClient_connect(klass)) ELSE _client
    /\ UNCHANGED <<default_timeout, klass, nodes, calls>>

SetThrough ==
    \E key \in RawKeys, value \in PyValues, timeout \in TimeoutArgs, bad \in BadSets :
        Through(cache_set(World(bad), Raw(key), value, timeout, None),
                [op |-> "set", key |-> key, value |-> value, timeout |-> timeout,
                 version |-> None])

GetThrough ==
    \E key \in RawKeys, bad \in BadSets :
        Through(cache_get(World(bad), Raw(key), None, None),
                [op |-> "get", key |-> key, default |-> None, version |-> None])

Close ==
    /\ nops < MaxOps
    /\ LET r == DefaultClient_close(klass, _client)
       IN  /\ last' = [op |-> "close", st |-> r.st, val |-> r.val,
                       connected |-> r.connected, closed |-> r.closed,
                       after |-> last.op, after_st |-> last.st]
           /\ _client' = r.cached
    /\ nops' = nops + 1
    /\ UNCHANGED <<store, default_timeout, written, klass, nodes, calls>>

\* The client has used its connection, or has not opened it yet
InitClose ==
    /\ store = EmptyStore
    /\ default_timeout \in DefaultTimeouts
    /\ last = NoCall
    /\ written = {}
    /\ nops = 0
    /\ klass = "DefaultClient"
    /\ nodes = {}
    /\ calls = <<>>
    /\ _client \in {None, Some(DefaultClient_connect(klass))}

NextClose == SetThrough \/ GetThrough \/ Close

SpecClose == InitClose /\ [][NextClose]_vars

-----------------------------------------------------------------------------
(* incr and decr on keys that hold an expiry: the call remembers the stores *)
(* it started from                                                          *)

InitExpiry == InitOf("DefaultClient", DefaultTimeouts)

IncrFrom ==
    \E key \in RawKeys, delta \in RaceDeltas, version \in VersionArgs, bad \in BadSets :
        Done(cache_incr(World(bad), Raw(key), delta, version),
             [op |-> "incr", key |-> key, delta |-> delta, version |-> version,
              before |-> store])

DecrFrom ==
    \E key \in RawKeys, delta \in RaceDeltas, version \in VersionArgs, bad \in BadSets :
        Done(cache_decr(World(bad), Raw(key), delta, version),
             [op |-> "decr", key |-> key, delta |-> delta, version |-> version,
              before |-> store])

NextExpiry == Set \/ IncrFrom \/ DecrFrom \/ Tick \/ Returned

SpecExpiry == InitExpiry /\ [][NextExpiry]_vars

-----------------------------------------------------------------------------
(* Properties *)

\* The versioned key a call's key and version arguments name
KeyOf(call) == make_key(Raw(call.key), call.version)

Healthy(call) == call.bad = {}

\* C1: versioned round trip.  Right after set(k, v, version=n) has returned,
\* get(k, default=d, version=n) returns v whatever d is; and a get(k, default=d,
\* version=m) of a versioned key that no write was ever issued for returns d.
C1_VersionedRoundTrip ==
    /\ (last.op = "set" /\ last.st = "ok") =>
          \A d \in Defaults :
              LET r == cache_get(World({}), Raw(last.key), d, last.version)
              IN  r.st = "ok" /\ r.val = last.value
    /\ (last.op = "get" /\ last.st = "ok" /\ KeyOf(last) \notin written) =>
          last.val = last.default

\* A get at version 2 answered the default while the same raw key is stored at version 1
C1_Witness ==
    /\ last.op = "get" /\ last.st = "ok"
    /\ last.version = Some(2) /\ last.default = Some(0) /\ last.val = Some(0)
    /\ store["client"][make_key(Raw(last.key), Some(1))] # None
    /\ make_key(Raw(last.key), Some(1)) \in written

\* C2: under sharding, every stored entry resides on exactly one shard, the
\* one the hash ring resolves for the entry's versioned key.
C2_EntriesOnOwningShard ==
    Sharded =>
        \A c \in Conns, k \in StoreKeys : store[c][k] # None => c = get_server(k)

SingleKeyOps == {"get", "set", "delete", "add", "incr", "decr", "has_key"}

\* C3: under sharding, a single-key call sends every command it issues to the
\* shard the hash ring resolves for the call's versioned key.
C3_OneConnectionPerCall ==
    (Sharded /\ last.op \in SingleKeyOps) =>
        \A i \in 1..Len(last.log) : last.log[i].conn = get_server(KeyOf(last))

\* The entry the client's own connection holds in stores st for a call's versioned key
Held(st, call) == st["client"][KeyOf(call)]

\* The versioned key incr_version moves the call's key to
NewKeyOf(call) == make_key(Raw(call.key), Some(VersionOf(call.version) + call.delta))

\* What get(key, default=d, version=version + delta) returns on stores st
GetAtNewVersion(st, call, d) ==
    cache_get(WorldOf(st, {}), Raw(call.key), d, Some(VersionOf(call.version) + call.delta))

\* incr_version has moved the key from stores before to stores after: it
\* returned the new version, a get at the new version returns the value held
\* before, and the old versioned key is gone
Moved(call, before, after) ==
    /\ call.st = "ok"
    /\ call.val = Some(VersionOf(call.version) + call.delta)
    /\ \A d \in Defaults :
           /\ GetAtNewVersion(after, call, d).st = "ok"
           /\ GetAtNewVersion(after, call, d).val = unpickle(The(Held(before, call)).val)
    /\ Held(after, call) = None

C5_IncrVersionKeepsExpiry ==
    [][(/\ last'.op = "incr_version" /\ last'.st = "ok" /\ last'.delta # 0)
           => /\ store'["client"][NewKeyOf(last')] # None
              /\ The(store'["client"][NewKeyOf(last')]).exp = The(Held(store, last')).exp]_vars

\* What an add of the call's key at the call's version does on stores st
SecondAdd(st, call, value, timeout) ==
    cache_add(WorldOf(st, {}), Raw(call.key), value, timeout, call.version)

\* The commands of a log that write or delete
Mutating(log) ==
    {i \in 1..Len(log) : log[i].cmd \in {"SET", "SETEX", "DEL"}}

\* C6: add is exclusive in sequential use.  add(k, v1) on an absent key returns
\* true and stores v1; an add(k, v2) at the same version right after it returns
\* false, issues no write and leaves v1 stored unchanged.
C6_AddExclusive ==
    [][(last'.op = "add" /\ Healthy(last') /\ Held(store, last') = None)
           => /\ last'.st = "ok" /\ last'.val = TRUE
              /\ Held(store', last') # None
              /\ unpickle(The(Held(store', last')).val) = last'.value
              /\ \A v2 \in PyValues, t \in Timeouts :
                     /\ SecondAdd(store', last', v2, t).st = "ok"
                     /\ SecondAdd(store', last', v2, t).val = FALSE
                     /\ Mutating(SecondAdd(store', last', v2, t).w.log) = {}
                     /\ SecondAdd(store', last', v2, t).w.store = store']_vars

\* add stored 1 under a key that was absent, and a second add is refused
C6_Witness ==
    /\ last.op = "add" /\ last.st = "ok" /\ last.val = TRUE
    /\ last.value = Some(1)
    /\ Held(store, last) # None /\ unpickle(The(Held(store, last)).val) = Some(1)
    /\ SecondAdd(store, last, None, None).val = FALSE

\* C7: incr, decr and incr_version on a key that does not exist at the given
\* version fail with ValueError and issue no write or delete: every store is
\* left unchanged.
C7_NotFound ==
    [][(/\ last'.op \in {"incr", "decr", "incr_version"} /\ Healthy(last')
        /\ Held(store, last') = None)
           => /\ last'.st = "ValueError"
              /\ Mutating(last'.log) = {}
              /\ store' = store]_vars

\* incr failed with ValueError on a missing key while another version of the key is stored
C7_Witness ==
    /\ last.op = "incr" /\ last.st = "ValueError"
    /\ Held(store, last) = None
    /\ \E k \in StoreKeys : k.raw = last.key /\ store["client"][k] # None

\* A store command of the call was sent to a connection that is down
CommandFailed(call) == \E i \in 1..Len(call.log) : call.log[i].conn \in call.bad

\* C8: every facade operation surfaces a transport failure of a store command
\* it issues as ConnectionInterrumped; a raw ConnectionError never reaches the
\* caller.
C8_TypedConnectivityError ==
    (last.op # "none" /\ CommandFailed(last)) => last.st = "ConnectionInterrumped"

\* The versioned key get_many reads for the requested key raw
ManyKey(call, raw) == make_key(Raw(raw), call.version)

\* The entry a get of the requested key reaches: the one held by the shard the
\* hash ring resolves for its versioned key
Reached(call, raw) == store[get_server(ManyKey(call, raw))][ManyKey(call, raw)]

\* The position of the first occurrence of the key in the requested keys (0: not requested)
FirstIndex(keys, key) ==
    IF \E i \in 1..Len(keys) : Raw(keys[i]) = key
    THEN CHOOSE i \in 1..Len(keys) :
             /\ Raw(keys[i]) = key
             /\ \A j \in 1..(i - 1) : Raw(keys[j]) # key
    ELSE 0

\* The result maps exactly the requested keys in found, each once, to its
\* stored value, in the order of the caller's keys
Merged(call, found) ==
    /\ call.st = "ok"
    /\ {call.val[i][1] : i \in 1..Len(call.val)} = {Raw(raw) : raw \in found}
    /\ \A i, j \in 1..Len(call.val) :
           i < j => FirstIndex(call.keys, call.val[i][1]) < FirstIndex(call.keys, call.val[j][1])
    /\ \A i \in 1..Len(call.val) :
           call.val[i][2] = unpickle(The(Reached(call, call.val[i][1].raw)).val)

Requested(call) == {call.keys[i] : i \in 1..Len(call.keys)}

\* C9, as claimed: sharded get_many returns exactly the requested keys that
\* are present, each mapped to its stored value, in the caller's key order,
\* and omits every absent key.
C9_AsClaimed ==
    (last.op = "get_many" /\ Healthy(last)) =>
        Merged(last, {raw \in Requested(last) : Reached(last, raw) # None})

\* C9, amended: sharded get_many returns exactly the requested keys that are
\* present with a stored value other than None, each mapped to its stored
\* value, in the caller's key order, and omits every other key.
C9_GetManyMerge ==
    (last.op = "get_many" /\ Healthy(last)) =>
        Merged(last, {raw \in Requested(last) :
                         /\ Reached(last, raw) # None
                         /\ unpickle(The(Reached(last, raw)).val) # None})

\* get_many(<<"b", "a">>) answered both keys, read from two shards, in the caller's order
C9_Witness ==
    /\ last.op = "get_many" /\ last.st = "ok" /\ Healthy(last)
    /\ Len(last.keys) = 2 /\ Len(last.val) = 2
    /\ last.val[1][1] = Raw(last.keys[1]) /\ last.val[2][1] = Raw(last.keys[2])
    /\ FirstIndex(last.keys, Raw(<<"b">>)) = 1
    /\ get_server(ManyKey(last, last.keys[1])) # get_server(ManyKey(last, last.keys[2]))

\* C10: a connectivity failure on any one shard during sharded get_many
\* aborts the whole call with ConnectionInterrumped; the caller receives no
\* result, not even the part the answering shards gave.
C10_NoPartialResult ==
    (/\ last.op = "get_many"
     /\ \E raw \in Requested(last) : get_server(ManyKey(last, raw)) \in last.bad)
        => last.st = "ConnectionInterrumped" /\ last.val = None

\* get_many failed on its second key after a healthy shard had answered its first with a value
C10_Witness ==
    /\ last.op = "get_many" /\ last.st = "ConnectionInterrumped"
    /\ Len(last.keys) = 2 /\ Len(last.log) = 2
    /\ last.log[1].conn \notin last.bad /\ last.log[2].conn \in last.bad
    /\ Reached(last, last.keys[1]) # None
    /\ unpickle(The(Reached(last, last.keys[1])).val) # None

\* The stored key matches the versioned pattern of a delete_pattern call
MatchesPattern(call, k) ==
    GlobMatch(str(make_key(Raw(call.pattern), call.version)), str(k))

\* The call sent the command to every shard
SentToEveryShard(call, cmd) ==
    \A n \in Nodes : \E i \in 1..Len(call.log) : call.log[i].conn = n /\ call.log[i].cmd = cmd

\* C11: sharded delete_pattern(pattern, version) is issued against every
\* shard: after it returns, no shard holds a key matching the versioned
\* pattern, and every entry whose key does not match is left unchanged on
\* its shard.
C11_DeletePatternEveryShard ==
    [][(last'.op = "delete_pattern" /\ last'.st = "ok")
           => /\ SentToEveryShard(last', "KEYS")
              /\ \A c \in Nodes, k \in StoreKeys :
                     store'[c][k] = IF MatchesPattern(last', k) THEN None ELSE store[c][k]]_vars

\* delete_pattern("a") removed the key "a", held before, from both shards and left "b" where it was
C11_Witness ==
    /\ last.op = "delete_pattern" /\ last.st = "ok" /\ last.pattern = <<"a">>
    /\ SentToEveryShard(last, "DEL")
    /\ make_key(Raw(<<"a">>), last.version) \in written
    /\ \A c \in Nodes : store[c][make_key(Raw(<<"a">>), last.version)] = None
    /\ \E c \in Nodes : store[c][make_key(Raw(<<"b">>), last.version)] # None

\* The raw keys whose versioned key matches the search on at least one shard
MatchingRawKeys(call) ==
    {k.raw : k \in {x \in StoreKeys :
                       /\ \E n \in Nodes : store[n][x] # None
                       /\ GlobMatch(str(make_key(Raw(call.search), None)), str(x))}}

\* C12: sharded keys(search) queries every shard and returns the union of the
\* matches with prefix and version stripped: each raw key that matches on at
\* least one shard appears exactly once, and no other key appears.
C12_KeysUnion ==
    (last.op = "keys" /\ last.st = "ok")
        => /\ SentToEveryShard(last, "KEYS")
           /\ {last.val[i] : i \in 1..Len(last.val)} = MatchingRawKeys(last)
           /\ \A i, j \in 1..Len(last.val) : last.val[i] = last.val[j] => i = j

\* keys("*") listed "a" and "b" once each while both shards hold "a"
C12_Witness ==
    /\ last.op = "keys" /\ last.st = "ok" /\ last.search = <<"*">>
    /\ Len(last.val) = 2
    /\ \A n \in Nodes : store[n][make_key(Raw(<<"a">>), None)] # None
    /\ \E n \in Nodes : store[n][make_key(Raw(<<"b">>), None)] # None

\* C13: flush applies to every managed connection: after clear() on a
\* sharded client, no shard holds any entry.
C13_ClearFlushesEveryShard ==
    (last.op = "clear" /\ last.st = "ok")
        => \A n \in Nodes, k \in StoreKeys : store[n][k] = None

ReadOnlyOps == {"get", "get_many", "has_key", "keys"}

MutatingOps == {"set", "add", "delete", "delete_many", "delete_pattern", "set_many",
                "incr", "decr", "incr_version"}

\* C14: master/slave read/write split.  With no explicit connection, a
\* read-only operation issues its store commands on the connection
\* get_for_read returns, and a mutating operation issues all of its store
\* commands, its existence checks and reads included, on the connection
\* get_for_write returns.
C14_ReadWriteSplit ==
    /\ last.op \in ReadOnlyOps =>
           \A i \in 1..Len(last.log) : last.log[i].conn = get_for_read
    /\ last.op \in MutatingOps =>
           \A i \in 1..Len(last.log) : last.log[i].conn = get_for_write

\* The connection a set with no explicit connection writes on
WriteConn == IF klass = "MasterSlaveClient" THEN get_for_write ELSE "client"

\* The timeout a set call works with: the backend's default when none is given
EffectiveTimeout(call) ==
    IF call.timeout = None THEN default_timeout ELSE The(call.timeout)

\* C15: set timeout boundary.  set with timeout > 0 issues a set-with-expiry
\* of that many seconds; set with no timeout uses the backend's default
\* timeout in its place; set whose effective timeout is 0 or negative issues a
\* plain set that stores the value with no expiry.  Exactly one store write
\* is issued in each case.
C15_SetTimeoutBoundary ==
    [][(last'.op = "set" /\ Healthy(last'))
           => /\ last'.st = "ok"
              /\ Len(last'.log) = 1
              /\ last'.log[1].conn = WriteConn /\ last'.log[1].keys = {KeyOf(last')}
              /\ \A c \in Conns, k \in StoreKeys :
                     (c # WriteConn \/ k # KeyOf(last')) => store'[c][k] = store[c][k]
              /\ IF EffectiveTimeout(last') > 0
                 THEN /\ last'.log[1].cmd = "SETEX"
                      /\ store'[WriteConn][KeyOf(last')] =
                             Some([val |-> pickle(last'.value),
                                   exp |-> Some(EffectiveTimeout(last'))])
                 ELSE /\ last'.log[1].cmd = "SET"
                      /\ store'[WriteConn][KeyOf(last')] =
                             Some([val |-> pickle(last'.value), exp |-> None])]_vars

\* set with a timeout of -1 stored the value with no expiry under a positive default timeout
C15_Witness ==
    /\ last.op = "set" /\ last.st = "ok" /\ last.timeout = Some(-1)
    /\ default_timeout > 0
    /\ last.log[1].cmd = "SET"
    /\ store[WriteConn][KeyOf(last)] = Some([val |-> pickle(last.value), exp |-> None])

\* C16: every routing strategy implements the facade identically.  With a
\* single node configured, the same calls with the same arguments yield the
\* same return values and the same store contents (keys, values and
\* expiries) under the sharded client as under the default client.
C16_SameAsDefaultClient ==
    /\ last.op # "none" => (last.st = last.ref_st /\ last.val = last.ref_val)
    /\ store["s1"] = store["client"]

\* The string holds "{tag}"
Carries(s, tag) ==
    \E i \in 1..(Len(s) - Len(tag) - 1) :
        SubSeq(s, i, i + Len(tag) + 1) = <<"{">> \o tag \o <<"}">>

Braces(s) == {i \in 1..Len(s) : s[i] \in {"{", "}"}}

\* C17, as claimed: any two keys that carry the same {tag} substring resolve
\* to the same shard, whatever the rest of the key, its prefix or its version
\* are.
C17_AsClaimed ==
    (/\ last.op = "get_server_name"
     /\ \E tag \in Tags : Carries(last.keys[1].raw, tag) /\ Carries(last.keys[2].raw, tag))
        => last.val[1] = last.val[2]

\* C17, amended: any two keys that carry the same {tag} substring and hold no
\* other brace, in the key or in the prefix, resolve to the same shard,
\* whatever the rest of the key, its prefix or its version are.
C17_HashTagLocality ==
    (/\ last.op = "get_server_name"
     /\ \E tag \in Tags : \A i \in {1, 2} :
            /\ Carries(last.keys[i].raw, tag)
            /\ Cardinality(Braces(str(last.keys[i]))) = 2)
        => last.val[1] = last.val[2]

\* "a{a}" under prefix p at version 1 and "{a}a" under prefix q at version 2
\* resolve to one shard, which neither key resolves to by its whole string
C17_Witness ==
    /\ last.op = "get_server_name"
    /\ last.keys[1] = [prefix |-> "p", version |-> 1, raw |-> <<"a", "{", "a", "}">>]
    /\ last.keys[2] = [prefix |-> "q", version |-> 2, raw |-> <<"{", "a", "}", "a">>]
    /\ last.val[1] = last.val[2]
    /\ get_node(str(last.keys[1])) # get_node(str(last.keys[2]))

\* The {...} groups of a string, read from the left: each from a "{" to the
\* first "}" after it
RECURSIVE GroupsOf(_)
GroupsOf(s) ==
    LET opens == {i \in 1..Len(s) : s[i] = "{" /\ \E j \in (i + 1)..Len(s) : s[j] = "}"}
    IN  IF opens = {} THEN <<>>
        ELSE LET i == CHOOSE x \in opens : \A y \in opens : x <= y
                 j == CHOOSE x \in (i + 1)..Len(s) :
                          s[x] = "}" /\ \A y \in (i + 1)..(x - 1) : s[y] # "}"
             IN  <<SubSeq(s, i + 1, j - 1)>> \o GroupsOf(SubSeq(s, j + 1, Len(s)))

\* C20: key extraction rule.  When a key contains more than one {...} group,
\* the shard is chosen by hashing only the substring inside the first {} of
\* the key; when the key contains no {...} group, the whole versioned key
\* string is hashed.
C20_FirstGroupIsHashed ==
    last.op = "get_server_name" =>
        \A i \in {1, 2} :
            LET s == str(last.keys[i])
            IN  /\ Len(GroupsOf(s)) > 1 => last.val[i] = get_node(GroupsOf(s)[1])
                /\ Len(GroupsOf(s)) = 0 => last.val[i] = get_node(s)

\* Where in the trace the caller's command of that kind was served, 0 if none
At(i, cmds) ==
    LET at == {n \in 1..Len(calls.trace) :
                   calls.trace[n].caller = i /\ calls.trace[n].cmd \in cmds}
    IN  IF at = {} THEN 0 ELSE CHOOSE n \in at : TRUE

Writes == {"SET", "SETEX"}

FrameKey(i) == make_key(Raw(calls.frames[i].key), calls.frames[i].version)

\* Both callers ran that operation on one key, and both calls are over
BothDone(op) ==
    /\ calls # <<>>
    /\ \A i \in Callers : calls.frames[i].op = op /\ calls.frames[i].pc = "done"
    /\ calls.frames[1].key = calls.frames[2].key

Stored(k) == store["client"][k]

\* C18: add is not atomic across its existence check and its set.  Two
\* concurrent adds on the same absent key both report success exactly when
\* neither existence check was served after the other call's set, and then
\* the key holds the value of the set served later: the earlier write is
\* overwritten.
C18_AddNotAtomic ==
    (BothDone("add") /\ calls.before["client"][FrameKey(1)] = None) =>
        \A i \in Callers :
            LET j == 3 - i
            IN  /\ (calls.frames[i].val = TRUE /\ calls.frames[j].val = TRUE)
                       <=> (/\ At(j, Writes) = 0 \/ At(i, {"EXISTS"}) < At(j, Writes)
                            /\ At(i, Writes) = 0 \/ At(j, {"EXISTS"}) < At(i, Writes))
                /\ (/\ calls.frames[i].val = TRUE /\ calls.frames[j].val = TRUE
                    /\ At(i, Writes) < At(j, Writes))
                       => The(Stored(FrameKey(1))).val = pickle(calls.frames[j].value)

\* Both adds reported success, and the value of the earlier set is gone
C18_Witness ==
    /\ BothDone("add")
    /\ calls.before["client"][FrameKey(1)] = None
    /\ calls.frames[1].val = TRUE /\ calls.frames[2].val = TRUE
    /\ calls.frames[1].value # calls.frames[2].value
    /\ At(1, Writes) < At(2, Writes)
    /\ The(Stored(FrameKey(1))).val = pickle(calls.frames[2].value)

\* The number the key held before the calls
HeldBefore(k) == The(unpickle(The(calls.before["client"][k]).val))

\* C19: incr is a non-atomic read-modify-write.  Two concurrent incrs on the
\* same existing key holding n both succeed; the one whose set is served first
\* returns n plus its delta; the other returns n plus its own delta alone when
\* its read was served before that set (the first increment is lost) and n
\* plus both deltas otherwise; the key ends holding what the later set wrote.
C19_IncrLostUpdate ==
    (BothDone("incr") /\ calls.before["client"][FrameKey(1)] # None) =>
        \A i \in Callers :
            LET j == 3 - i
                n == HeldBefore(FrameKey(1))
                fi == calls.frames[i]
                fj == calls.frames[j]
            IN  /\ fi.st = "ok"
                /\ At(i, Writes) < At(j, Writes) =>
                       /\ fi.val = Some(n + fi.delta)
                       /\ fj.val = IF At(j, {"GET"}) < At(i, Writes)
                                   THEN Some(n + fj.delta)
                                   ELSE Some(n + fi.delta + fj.delta)
                       /\ The(Stored(FrameKey(1))).val = pickle(fj.val)

\* Both incrs returned n + delta, and the key holds n + delta, not n + 2 * delta
C19_Witness ==
    /\ BothDone("incr")
    /\ calls.before["client"][FrameKey(1)] # None
    /\ calls.frames[1].delta = calls.frames[2].delta
    /\ \A i \in Callers :
           /\ calls.frames[i].st = "ok"
           /\ calls.frames[i].val = Some(HeldBefore(FrameKey(1)) + calls.frames[i].delta)
    /\ The(Stored(FrameKey(1))).val
           = pickle(Some(HeldBefore(FrameKey(1)) + calls.frames[1].delta))
    /\ The(Stored(FrameKey(1))).val
           # pickle(Some(HeldBefore(FrameKey(1)) + 2 * calls.frames[1].delta))

C22_IncrVersionKeepsValue ==
    [][(last'.op = "incr_version" /\ last'.st = "ok") =>
           /\ last'.val = Some(NewKeyOf(last').version)
           /\ store'["client"][NewKeyOf(last')] # None
           /\ The(store'["client"][NewKeyOf(last')]).val = The(Held(store, last')).val
           /\ \A i \in 1..Len(last'.log) :
                  last'.log[i].cmd = "DEL" =>
                      /\ NewKeyOf(last') \notin last'.log[i].keys
                      /\ \E j \in 1..(i - 1) :
                             /\ IsWrite(last'.log[j].cmd)
                             /\ NewKeyOf(last') \in last'.log[j].keys]_vars

\* The number a successful incr or decr leaves: what the key held, plus or
\* minus delta
Counted(call) ==
    LET n == The(unpickle(The(Held(call.before, call)).val))
    IN  IF call.op = "incr" THEN n + call.delta ELSE n - call.delta

\* C23: incr and decr rewrite the key through set without a timeout argument.
\* After a successful incr or decr the key's expiry is the backend's default
\* timeout (no expiry when that default is not positive), whatever TTL the key
\* had before; the value change is the only other effect, and entries under
\* other keys or versions are unchanged.
C23_IncrDecrResetExpiry ==
    (last.op \in {"incr", "decr"} /\ last.st = "ok") =>
        /\ Held(last.before, last) # None
        /\ last.val = Some(Counted(last))
        /\ Held(store, last) =
               Some([val |-> pickle(Some(Counted(last))),
                     exp |-> IF default_timeout > 0 THEN Some(default_timeout) ELSE None])
        /\ \A c \in Conns, k \in StoreKeys :
               (c # "client" \/ k # KeyOf(last)) => store[c][k] = last.before[c][k]

\* An incr or decr succeeded on a key that had one second left, which now has
\* the default timeout; or on a key that expired in MaxTTL seconds, under a
\* backend without default timeout, which now never expires
C23_Witness ==
    /\ last.op \in {"incr", "decr"} /\ last.st = "ok"
    /\ Held(last.before, last) # None
    /\ \/ /\ default_timeout = MaxTTL
          /\ The(Held(last.before, last)).exp = Some(1)
          /\ The(Held(store, last)).exp = Some(MaxTTL)
       \/ /\ default_timeout = 0
          /\ The(Held(last.before, last)).exp = Some(MaxTTL)
          /\ The(Held(store, last)).exp = None

\* C24: in every interleaving of incr(k, delta) with a concurrent delete(k) of
\* the same key, incr ends in one of two outcomes only: it fails with the
\* not-found error and writes nothing, or it returns the previously stored
\* value plus delta; it never proceeds to the arithmetic with an absent value
\* after its existence check succeeded.
C24_IncrAgainstDelete ==
    calls # <<>> =>
        \A i \in Callers :
            LET j == 3 - i
                f == calls.frames[i]
            IN  (/\ f.op = "incr" /\ f.pc = "done"
                 /\ calls.frames[j].op = "delete"
                 /\ calls.frames[j].key = f.key)
                    => \/ f.st = "ValueError" /\ At(i, Writes) = 0
                       \/ /\ f.st = "ok"
                          /\ calls.before["client"][FrameKey(i)] # None
                          /\ f.val = Some(HeldBefore(FrameKey(i)) + f.delta)

=============================================================================
